---- MODULE Spec2Model ----
(***************************************************************************)
(* A model of the actors of zgm-srv: Room (src/room/actor.rs), RoomManager *)
(* (src/room/mod.rs), the session registry Server (src/server/mod.rs) and  *)
(* Session (src/session/actor.rs).                                         *)
(*                                                                         *)
(* Every handler is an operator from the actor's state and the message to  *)
(* an effect: the actor's next state, the reply, and the messages it sent, *)
(* in the order of the code.  A handler that panics (todo!, unwrap on      *)
(* None, expect) leaves the actor "aborted": what it sent before the panic *)
(* was sent, it handles nothing afterwards and its fields are dropped, as  *)
(* are those of an actor that stopped.                                     *)
(***************************************************************************)
EXTENDS Naturals, Sequences, FiniteSets, TLC

VARIABLES
    rooms,      \* room id -> the Room actor's fields (or NoRoom before Room::new)
    last,       \* the last handler that ran: its actor, message, reply and sends
    rm,         \* the RoomManager's fields: the pools free, reserved and open
    server,     \* the session registry's fields: sessions and sessions_inverted
    sess,       \* session address -> the Session actor's fields
    id_provider \* the Mutex<u128> of socket: the id handed to the last stream

vars == <<rooms, last, rm, server, sess, id_provider>>

---------------------------------------------------------------------------
(* Bounds of the model *)

\* TransientIds handed to streams are 1..MaxTid
MaxTid == 3
\* Room capacities (RoomConfig.max_player_count) are drawn from 2..MaxCap
MaxCap == 3
\* the slot vector of a Room is explored up to the length of the largest capacity
MaxSlots == MaxCap
\* Room actors are 1..MaxRooms
MaxRooms == 2
\* the sessions that send CreateRoom and JoinRoom to the RoomManager are 1..MaxJoiners
MaxJoiners == 1
\* UserIds (the ids clients log in with) are 1..MaxUsers
MaxUsers == 2
\* a Session's interval callback runs until MaxTimers terminators are pending
MaxTimers == 2

TransientIds == 1..MaxTid
RoomIds == 1..MaxRooms
Capacities == 2..MaxCap
Joiners == 1..MaxJoiners
UserIds == 1..MaxUsers
RoomCodes == {"AAAA", "AAAB"}
\* RemoveReason; the reasons a RemovePlayer is sent with are drawn from SentReasons
Reasons == {"RoomClosed", "Logout", "Disconnected", "LeaveRequested", "IdMismatch"}
SentReasons == {"Disconnected", "LeaveRequested"}

---------------------------------------------------------------------------
(* Room: src/room/actor.rs *)

\* HashMap<TransientId, usize>: the slot index of a key (1-based), 0 for no entry
EmptyMap == [t \in TransientIds |-> 0]
MapInsert(m, k, v) == [m EXCEPT ![k] = v]
MapRemove(m, k) == [m EXCEPT ![k] = 0]
Keys(m) == {t \in TransientIds : m[t] # 0}

\* Option<PlayerInRoom>: None
NoPlayer == [transient_id |-> 0, addr |-> 0]

PlayerInRoom(t, a) == [transient_id |-> t, addr |-> a]

NoRoom == [state |-> "none"]

\* Room::new: the leader sits in slot 0, player_count is 1, no game
RoomNew(self, code, leader, addr, public, max) ==
    [state |-> "running",
     addr |-> self,
     players |-> <<PlayerInRoom(leader, addr)>>,
     game |-> FALSE,
     id_map |-> MapInsert(EmptyMap, leader, 1),
     leader |-> leader,
     code |-> code,
     public |-> public,
     max_player_count |-> max,
     player_count |-> 1]

\* an actor that stopped or panicked is dropped: only its address and code remain
Dropped(room, state) ==
    [state |-> state,
     addr |-> room.addr,
     players |-> <<>>,
     game |-> FALSE,
     id_map |-> EmptyMap,
     leader |-> 0,
     code |-> room.code,
     public |-> FALSE,
     max_player_count |-> 0,
     player_count |-> 0]

SomeSlots(room) == {i \in 1..Len(room.players) : room.players[i] # NoPlayer}

\* messages
ToRM(body) == [to |-> "room_manager", body |-> body]
ToSession(a, body) == [to |-> "session", addr |-> a, body |-> body]

MsgUpdateRoomMatchAvailability(code, availability) ==
    [kind |-> "UpdateRoomMatchAvailability", code |-> code, availability |-> availability]
MsgOnRoomClosed(code) == [kind |-> "OnRoomClosed", code |-> code]
MsgClearRoom(reason) == [kind |-> "ClearRoom", reason |-> reason]
MsgRestoreState(code, game) == [kind |-> "RestoreState", code |-> code, game |-> game]
MsgSerializedMessage(frame) == [kind |-> "SerializedMessage", frame |-> frame]
RemoveFromRoom(reason) == [frame |-> "RemoveFromRoom", reason |-> reason]

Effect(room, result, out) == [room |-> room, result |-> result, out |-> out]

\* the slots in index order, as the messages a loop over the Some slots sends
RECURSIVE ToEachPlayer(_, _, _)
ToEachPlayer(players, i, body) ==
    IF i > Len(players) THEN <<>>
    ELSE (IF players[i] # NoPlayer
            THEN <<ToSession(players[i].addr, body)>>
            ELSE <<>>) \o ToEachPlayer(players, i + 1, body)

\* impl Actor for Room: stopped.  Runs when a handler called ctx.stop().
RoomStopped(room) ==
    Effect(Dropped(room, "stopped"),
           <<"unit">>,
           ToEachPlayer(room.players, 1, MsgSerializedMessage(RemoveFromRoom("RoomClosed")))
             \o <<ToRM(MsgOnRoomClosed(room.code))>>)

\* the first None slot, 0 if there is none
FirstFree(players) ==
    IF \E i \in 1..Len(players) : players[i] = NoPlayer
      THEN CHOOSE i \in 1..Len(players) :
             /\ players[i] = NoPlayer
             /\ \A j \in 1..(i - 1) : players[j] # NoPlayer
      ELSE 0

\* AddPlayer with the capacity test off by one (> for >=)
AddPlayerOffByOne(room, id, addr) ==
    LET result ==
          IF room.game THEN "GameInProgress"
          ELSE IF room.player_count > room.max_player_count THEN "RoomFull"
          ELSE IF id \in Keys(room.id_map) THEN "AlreadyInRoom"
          ELSE "Ok"
        idx == FirstFree(room.players)
        admitted ==
          IF idx # 0
            THEN [room EXCEPT !.players[idx] = PlayerInRoom(id, addr),
                              !.id_map = MapInsert(room.id_map, id, idx),
                              !.player_count = room.player_count + 1]
            ELSE [room EXCEPT !.players = Append(room.players, PlayerInRoom(id, addr)),
                              !.id_map = MapInsert(room.id_map, id, Len(room.players) + 1),
                              !.player_count = room.player_count + 1]
        after == IF result = "Ok" THEN admitted ELSE room
    IN  Effect(after,
               IF result = "Ok" THEN <<"Ok", room.code, room.addr>> ELSE <<"Err", result>>,
               IF after.player_count >= after.max_player_count
                 THEN <<ToRM(MsgUpdateRoomMatchAvailability(room.code, "Full"))>>
                 ELSE <<>>)

\* Handler<AddPlayer> for Room.  Slot indices are 1-based here, 0-based in the code.
AddPlayer(room, id, addr) ==
    LET result ==
          IF room.game THEN "GameInProgress"
          ELSE IF room.player_count >= room.max_player_count THEN "RoomFull"
          ELSE IF id \in Keys(room.id_map) THEN "AlreadyInRoom"
          ELSE "Ok"
        idx == FirstFree(room.players)
        admitted ==
          IF idx # 0
            THEN [room EXCEPT !.players[idx] = PlayerInRoom(id, addr),
                              !.id_map = MapInsert(room.id_map, id, idx),
                              !.player_count = room.player_count + 1]
            ELSE [room EXCEPT !.players = Append(room.players, PlayerInRoom(id, addr)),
                              !.id_map = MapInsert(room.id_map, id, Len(room.players) + 1),
                              !.player_count = room.player_count + 1]
        after == IF result = "Ok" THEN admitted ELSE room
    IN  Effect(after,
               IF result = "Ok" THEN <<"Ok", room.code, room.addr>> ELSE <<"Err", result>>,
               IF after.player_count >= after.max_player_count
                 THEN <<ToRM(MsgUpdateRoomMatchAvailability(room.code, "Full"))>>
                 ELSE <<>>)

\* Handler<RemovePlayer> for Room.  `self.players.get_mut(idx).take()` takes the
\* Option<&mut Option<PlayerInRoom>> that get_mut returned, not the slot: `player`
\* is a reference to the slot and the slot keeps its PlayerInRoom.
\* player_count is a usize and a running Room has player_count >= 1.
RemovePlayer(room, transient_id, reason) ==
    LET known == transient_id \in Keys(room.id_map)
        idx == room.id_map[transient_id]
        player == IF known /\ idx <= Len(room.players) THEN room.players[idx] ELSE NoPlayer
        after == [room EXCEPT !.player_count = room.player_count - 1,
                              !.id_map = MapRemove(room.id_map, transient_id)]
        clear == IF reason # "LeaveRequested" /\ player # NoPlayer
                   THEN <<ToSession(player.addr, MsgClearRoom(reason))>>
                   ELSE <<>>
    IN  IF after.player_count = 0
          THEN Effect(RoomStopped(after).room, <<"unit">>, clear \o RoomStopped(after).out)
          ELSE Effect(after, <<"unit">>, clear)

\* Handler<CloseRoom> for Room
CloseRoom(room) == RoomStopped(room)

\* Handler<ClientReconnection> for Room.  The argument of RestoreState is
\* evaluated after old.take() and before do_send: with no game the unwrap()
\* panics there, the slot emptied and the replacee out of the index map.
ClientReconnection(room, replacee, new_id, new_addr) ==
    IF replacee \notin Keys(room.id_map)
      THEN Effect(room, <<"unit">>, <<>>)
      ELSE
        LET idx == room.id_map[replacee]
            removed == [room EXCEPT !.id_map = MapRemove(room.id_map, replacee)]
            rewired == [removed EXCEPT
                          !.id_map = MapInsert(removed.id_map, new_id, idx),
                          !.players[idx] = PlayerInRoom(new_id, new_addr)]
        IN  IF idx > Len(room.players) THEN Effect(removed, <<"unit">>, <<>>)
            ELSE IF room.players[idx] = NoPlayer THEN Effect(rewired, <<"unit">>, <<>>)
            ELSE IF ~room.game
              THEN Effect(Dropped(room, "aborted"), <<"panic">>, <<>>)
              ELSE Effect(rewired, <<"unit">>,
                          <<ToSession(new_addr, MsgRestoreState(room.code, "state"))>>)

\* Room::start_game: ends in todo!(), after the game is stored and the sends
start_game(room) ==
    Effect(Dropped(room, "aborted"),
           <<"panic">>,
           <<ToRM(MsgUpdateRoomMatchAvailability(room.code, "GameStarted"))>>
             \o ToEachPlayer(room.players, 1, MsgSerializedMessage([frame |-> "GameStarted"])))

\* RequestStart that lets any requester start a private room
RequestStartNoLeaderTest(room, tid) ==
    IF room.game THEN Effect(room, <<"Err", "GameAlreadyRunning">>, <<>>)
    ELSE start_game(room)

\* Handler<RequestStart> for Room
RequestStart(room, tid) ==
    IF room.game THEN Effect(room, <<"Err", "GameAlreadyRunning">>, <<>>)
    ELSE IF room.public THEN start_game(room)
    ELSE IF room.leader = tid THEN start_game(room)
    ELSE Effect(room, <<"Err", "NotLeader">>, <<>>)

---------------------------------------------------------------------------
(* RoomManager: src/room/mod.rs *)

DEFAULT_PLAYER_LIMIT == 6

RoomConfig(public, max) == [public |-> public, max_player_count |-> max]
DefaultRoomConfig == RoomConfig(TRUE, DEFAULT_PLAYER_LIMIT)

\* a pool is a HashMap<RoomCode, RoomInfo>: NoInfo for a code that is no key
NoInfo == [addr |-> 0, playing |-> FALSE, full |-> FALSE]
RoomInfoNew(addr) == [addr |-> addr, playing |-> FALSE, full |-> FALSE]
reset(info) == [info EXCEPT !.full = FALSE, !.playing = FALSE]

EmptyPool == [c \in RoomCodes |-> NoInfo]
PoolKeys(pool) == {c \in RoomCodes : pool[c] # NoInfo}

RoomManagerNew == [free |-> EmptyPool, reserved |-> EmptyPool, open |-> EmptyPool]

\* JoinRoom.code: None
NoCode == "none"

ToRoom(a, body) == [to |-> "room", addr |-> a, body |-> body]
MsgAddPlayer(session) == [kind |-> "AddPlayer", tid |-> session[1], addr |-> session[2]]

\* what a RoomManager handler did: its fields afterwards, its reply, its sends
\* and the Room it started (NoRoom if it started none)
RMEffect(m, result, out, started) ==
    [rm |-> m, result |-> result, out |-> out, started |-> started]

\* create that puts the new room into the open pool
createInOpen(m, leader, room_config, code, addr) ==
    RMEffect([m EXCEPT !.open[code] = RoomInfoNew(addr)],
             <<"Ok", code, addr>>,
             <<>>,
             RoomNew(addr, code, leader[1], leader[2],
                     room_config.public, room_config.max_player_count))

\* RoomManager::create.  `code` is what generate_room_id() returned and `addr`
\* the address of the Room started; the code is inserted into reserved
\* whatever the pools hold.
create(m, leader, room_config, code, addr) ==
    RMEffect([m EXCEPT !.reserved[code] = RoomInfoNew(addr)],
             <<"Ok", code, addr>>,
             <<>>,
             RoomNew(addr, code, leader[1], leader[2],
                     room_config.public, room_config.max_player_count))

\* Handler<CreateRoom> for RoomManager
CreateRoom(m, leader, room_config, code, addr) ==
    create(m, leader, room_config, code, addr)

\* the continuation of JoinRoom on the reply of a forwarded AddPlayer: a
\* MailboxError becomes InternalServerError, the Room's Ok((code, addr)) and
\* Err(e) are passed on
relay(res) ==
    IF res[1] = "MailboxError" THEN <<"Err", "InternalServerError">> ELSE res

\* JoinRoom that forwards to a reserved room marked full
JoinRoomNoFullTest(m, session, code, found, newcode, newaddr, reply) ==
    IF code # NoCode
      THEN IF m.reserved[code] # NoInfo
             THEN IF m.reserved[code].playing
                    THEN RMEffect(m, <<"Err", "GameInProgress">>, <<>>, NoRoom)
                  ELSE RMEffect(m, relay(reply),
                                <<ToRoom(m.reserved[code].addr, MsgAddPlayer(session))>>, NoRoom)
           ELSE IF m.open[code] # NoInfo
             THEN RMEffect(m, relay(reply),
                           <<ToRoom(m.open[code].addr, MsgAddPlayer(session))>>, NoRoom)
           ELSE RMEffect(m, <<"Err", "RoomNotFound">>, <<>>, NoRoom)
      ELSE IF found # NoCode
             THEN RMEffect(m, relay(reply),
                           <<ToRoom(m.open[found].addr, MsgAddPlayer(session))>>, NoRoom)
             ELSE create(m, session, DefaultRoomConfig, newcode, newaddr)

\* Handler<JoinRoom> for RoomManager.  `reply` is what the Room answered to a
\* forwarded AddPlayer (<<"MailboxError">> if the send failed), `found` the
\* entry open.iter() yields first, `newcode` and `newaddr` the code and Room
\* of a create.
JoinRoom(m, session, code, found, newcode, newaddr, reply) ==
    IF code # NoCode
      THEN IF m.reserved[code] # NoInfo
             THEN IF m.reserved[code].playing
                    THEN RMEffect(m, <<"Err", "GameInProgress">>, <<>>, NoRoom)
                  ELSE IF m.reserved[code].full
                    THEN RMEffect(m, <<"Err", "RoomFull">>, <<>>, NoRoom)
                  ELSE RMEffect(m, relay(reply),
                                <<ToRoom(m.reserved[code].addr, MsgAddPlayer(session))>>, NoRoom)
           ELSE IF m.open[code] # NoInfo
             THEN RMEffect(m, relay(reply),
                           <<ToRoom(m.open[code].addr, MsgAddPlayer(session))>>, NoRoom)
           ELSE RMEffect(m, <<"Err", "RoomNotFound">>, <<>>, NoRoom)
      ELSE IF found # NoCode
             THEN RMEffect(m, relay(reply),
                           <<ToRoom(m.open[found].addr, MsgAddPlayer(session))>>, NoRoom)
             ELSE create(m, session, DefaultRoomConfig, newcode, newaddr)

\* Availability: "Available", or Unavailable with reason "Full" or "GameStarted"
Availabilities == {"Available", "Full", "GameStarted"}

setFlag(info, reason) ==
    IF reason = "Full" THEN [info EXCEPT !.full = TRUE] ELSE [info EXCEPT !.playing = TRUE]

\* Available that moves a reserved room to open whatever its flags
UpdateRoomMatchAvailabilityNoFlagTest(m, code, availability) ==
    IF availability = "Available"
      THEN IF m.reserved[code] # NoInfo
             THEN [m EXCEPT !.reserved[code] = NoInfo, !.open[code] = m.reserved[code]]
             ELSE m
    ELSE IF m.open[code] # NoInfo
      THEN [m EXCEPT !.open[code] = NoInfo, !.reserved[code] = setFlag(m.open[code], availability)]
    ELSE IF m.reserved[code] # NoInfo
      THEN [m EXCEPT !.reserved[code] = setFlag(m.reserved[code], availability)]
    ELSE m

\* Unavailable that sets the flag in reserved and leaves the room in open too
UpdateRoomMatchAvailabilityKeepsOpen(m, code, availability) ==
    IF availability = "Available"
      THEN IF m.reserved[code] # NoInfo
             THEN IF ~m.reserved[code].full /\ ~m.reserved[code].playing
                    THEN [m EXCEPT !.reserved[code] = NoInfo, !.open[code] = m.reserved[code]]
                    ELSE m
             ELSE m
    ELSE IF m.open[code] # NoInfo
      THEN [m EXCEPT !.reserved[code] = setFlag(m.open[code], availability)]
    ELSE IF m.reserved[code] # NoInfo
      THEN [m EXCEPT !.reserved[code] = setFlag(m.reserved[code], availability)]
    ELSE m

\* Handler<UpdateRoomMatchAvailability> for RoomManager
UpdateRoomMatchAvailability(m, code, availability) ==
    IF availability = "Available"
      THEN IF m.reserved[code] # NoInfo
             THEN IF ~m.reserved[code].full /\ ~m.reserved[code].playing
                    THEN [m EXCEPT !.reserved[code] = NoInfo, !.open[code] = m.reserved[code]]
                    ELSE m
             ELSE m
    ELSE IF m.open[code] # NoInfo
      THEN [m EXCEPT !.open[code] = NoInfo, !.reserved[code] = setFlag(m.open[code], availability)]
    ELSE IF m.reserved[code] # NoInfo
      THEN [m EXCEPT !.reserved[code] = setFlag(m.reserved[code], availability)]
    ELSE m

\* OnRoomClosed with a lazy or_else: reserved.remove runs only when the code
\* was not in open
OnRoomClosedLazyOr(m, code) ==
    IF m.open[code] # NoInfo
      THEN [m EXCEPT !.open[code] = NoInfo, !.free[code] = reset(m.open[code])]
    ELSE IF m.reserved[code] # NoInfo
      THEN [m EXCEPT !.reserved[code] = NoInfo, !.free[code] = reset(m.reserved[code])]
    ELSE m

\* Handler<OnRoomClosed> for RoomManager.  Option::or takes its argument by
\* value: reserved.remove runs whether or not open.remove found the code.
OnRoomClosed(m, code) ==
    LET room == IF m.open[code] # NoInfo THEN m.open[code] ELSE m.reserved[code]
        removed == [m EXCEPT !.open[code] = NoInfo, !.reserved[code] = NoInfo]
    IN  IF room # NoInfo
          THEN [removed EXCEPT !.free[code] = reset(room)]
          ELSE removed

---------------------------------------------------------------------------
(* The session registry: Server, src/server/mod.rs.  A stream's server_id  *)
(* (src/server/http.rs) is the TransientId of its Session, and the address *)
(* of Session t is t.  The Register and Unregister a Session sends are the *)
(* Server's RegisterSession and DeregisterSession.                         *)

\* FxHashMap<u128, SessionData>: NoData for a server_id that is no key
NoData == [id |-> 0, room |-> 0, addr |-> 0]
SessionData(id, room, addr) == [id |-> id, room |-> room, addr |-> addr]

ServerNew ==
    [state |-> "running",
     sessions |-> [t \in TransientIds |-> NoData],
     sessions_inverted |-> [u \in UserIds |-> 0]]

\* a Server that panicked: its maps are dropped with it
ServerAborted == [ServerNew EXCEPT !.state = "aborted"]

ToServer(body) == [to |-> "server", body |-> body]

MsgStop == [kind |-> "Stop"]
ForceDisconnect(reason) == [frame |-> "ForceDisconnect", reason |-> reason]
MsgDeregisterSession(server_id, id, address, reason) ==
    [kind |-> "DeregisterSession", server_id |-> server_id, id |-> id,
     address |-> address, reason |-> reason]
MsgClientReconnection(addr, id, server_id) ==
    [kind |-> "ClientReconnection", addr |-> addr, id |-> id, server_id |-> server_id]
MsgRemovePlayer(reason, server_id) ==
    [kind |-> "RemovePlayer", reason |-> reason, server_id |-> server_id]

\* what a Server handler did: its fields afterwards, its reply, its sends
SrvEffect(srv, result, out) == [server |-> srv, result |-> result, out |-> out]

\* RegisterSession that leaves sessions_inverted at the old session on a
\* reconnection
RegisterSessionKeepsInverted(srv, addr, id, server_id) ==
    IF srv.sessions[server_id] # NoData
      THEN IF srv.sessions[server_id].addr = addr
             THEN SrvEffect(srv, <<"unit">>, <<>>)
             ELSE SrvEffect(srv, <<"unit">>,
                    <<ToSession(srv.sessions[server_id].addr,
                                MsgSerializedMessage(ForceDisconnect("IdMismatch"))),
                      ToSession(srv.sessions[server_id].addr, MsgStop),
                      ToServer(MsgDeregisterSession(server_id, id, addr, "IdMismatch"))>>)
    ELSE IF srv.sessions_inverted[id] # 0
      THEN LET session == srv.sessions_inverted[id]
               data == srv.sessions[session]
           IN  IF data = NoData THEN SrvEffect(srv, <<"unit">>, <<>>)
               ELSE IF data.room # 0
                 THEN SrvEffect(ServerAborted, <<"panic">>,
                                <<ToRoom(data.room, MsgClientReconnection(addr, id, server_id))>>)
               ELSE SrvEffect(
                      [srv EXCEPT !.sessions =
                                     [srv.sessions EXCEPT ![session] = NoData,
                                                          ![server_id] = [data EXCEPT !.addr = addr]]],
                      <<"unit">>,
                      <<ToSession(data.addr, MsgStop)>>)
    ELSE SrvEffect([srv EXCEPT !.sessions[server_id] = SessionData(id, 0, addr),
                               !.sessions_inverted[id] = server_id],
                   <<"unit">>, <<>>)

\* Handler<RegisterSession> for Server.  With a record of the user that has a
\* room, the handler ends in todo!() right after the ClientReconnection is
\* sent: Stop is not sent and the record, already removed, is not put back.
RegisterSession(srv, addr, id, server_id) ==
    IF srv.sessions[server_id] # NoData
      THEN IF srv.sessions[server_id].addr = addr
             THEN SrvEffect(srv, <<"unit">>, <<>>)
             ELSE SrvEffect(srv, <<"unit">>,
                    <<ToSession(srv.sessions[server_id].addr,
                                MsgSerializedMessage(ForceDisconnect("IdMismatch"))),
                      ToSession(srv.sessions[server_id].addr, MsgStop),
                      ToServer(MsgDeregisterSession(server_id, id, addr, "IdMismatch"))>>)
    ELSE IF srv.sessions_inverted[id] # 0
      THEN LET session == srv.sessions_inverted[id]
               data == srv.sessions[session]
           IN  IF data = NoData THEN SrvEffect(srv, <<"unit">>, <<>>)
               ELSE IF data.room # 0
                 THEN SrvEffect(ServerAborted, <<"panic">>,
                                <<ToRoom(data.room, MsgClientReconnection(addr, id, server_id))>>)
               ELSE SrvEffect(
                      [srv EXCEPT !.sessions =
                                     [srv.sessions EXCEPT ![session] = NoData,
                                                          ![server_id] = [data EXCEPT !.addr = addr]],
                                  !.sessions_inverted[id] = server_id],
                      <<"unit">>,
                      <<ToSession(data.addr, MsgStop)>>)
    ELSE SrvEffect([srv EXCEPT !.sessions[server_id] = SessionData(id, 0, addr),
                               !.sessions_inverted[id] = server_id],
                   <<"unit">>, <<>>)

\* Handler<DeregisterSession> for Server.  With a record that has a room, the
\* handler ends in todo!() right after the RemovePlayer is sent.
DeregisterSession(srv, server_id, reason) ==
    LET data == srv.sessions[server_id]
    IN  IF data = NoData THEN SrvEffect(srv, <<"unit">>, <<>>)
        ELSE IF data.room # 0
          THEN SrvEffect(ServerAborted, <<"panic">>,
                         <<ToRoom(data.room, MsgRemovePlayer(reason, server_id))>>)
        ELSE SrvEffect([srv EXCEPT !.sessions[server_id] = NoData,
                                   !.sessions_inverted[data.id] = 0],
                       <<"unit">>, <<>>)

\* UpdateSessionRoomInfo(tid, room): sets the record's back-pointer.  The
\* message of src/session/actor.rs carries the Room's address (0 for None).
UpdateSessionRoomInfo(srv, tid, room) ==
    IF srv.sessions[tid] # NoData
      THEN SrvEffect([srv EXCEPT !.sessions[tid].room = room], <<"unit">>, <<>>)
      ELSE SrvEffect(srv, <<"unit">>, <<>>)

---------------------------------------------------------------------------
(* Session: src/session/actor.rs.  Time goes in seconds.  hb is the age of  *)
(* the last-heartbeat Instant, counted up to HB_TIME_LIMIT, which is all    *)
(* the interval callback tests; next_hb is the time left until the interval *)
(* callback runs; reconnection_timer says whether a terminator is          *)
(* scheduled.  quiet is not a field of the actor: it is the time since the *)
(* client's last frame, and stays at HB_TIME_LIMIT once the client let     *)
(* that much time pass between two frames.  terminators is not a field     *)
(* either: it is the number of run_later futures of heartbeat that the     *)
(* actor's context holds, of which reconnection_timer names the last.      *)

ROOM_CODE_LENGTH == 4
HB_CHECK_INTERVAL == 5
HB_TIME_LIMIT == 2

SessionNew ==
    [state |-> "running", id |-> 0, transient_id |-> 0, room |-> 0,
     reconnection_timer |-> FALSE,
     hb |-> 0, next_hb |-> HB_CHECK_INTERVAL, quiet |-> 0, terminators |-> 0]

\* a Session that is not started, stopped or panicked has no fields
SessionGone(state) == [SessionNew EXCEPT !.state = state]
NoSession == SessionGone("none")

ToClient(frame) == [to |-> "client", body |-> frame]

MsgRegister(session_addr, user_id) ==
    [kind |-> "Register", session_addr |-> session_addr, user_id |-> user_id]
MsgUnregister(transient_id, reason) ==
    [kind |-> "Unregister", transient_id |-> transient_id, reason |-> reason]
MsgUpdateSessionRoomInfo(transient_id, room) ==
    [kind |-> "UpdateSessionRoomInfo", transient_id |-> transient_id, room |-> room]
MsgJoinRoom(session, code) ==
    [kind |-> "JoinRoom", tid |-> session[1], addr |-> session[2], code |-> code]
ResultFrame(success, info) == [frame |-> "Result", success |-> success, info |-> info]

JoinRoomErrors ==
    {"RoomFull", "GameInProgress", "AlreadyInRoom", "RoomNotFound", "InternalServerError"}

\* what a Session handler did: its fields afterwards, its reply, its sends
SessEffect(session, result, out) == [session |-> session, result |-> result, out |-> out]

\* impl Actor for Session: stopped.  Runs when ctx.stop() was called; it tests
\* transient_id, not id.
SessionStopped(session) ==
    SessEffect(SessionGone("stopped"),
               <<"unit">>,
               IF session.transient_id # 0
                 THEN <<ToServer(MsgUnregister(session.transient_id, "Disconnected"))>>
                 ELSE <<>>)

\* Option<String> of a frame
None == [some |-> FALSE]
Some(str) == [some |-> TRUE, str |-> str]

\* the interval callback of Session::heartbeat
heartbeat(session) ==
    LET again == [session EXCEPT !.next_hb = HB_CHECK_INTERVAL]
    IN  IF session.hb >= HB_TIME_LIMIT
          THEN SessEffect([again EXCEPT !.reconnection_timer = TRUE,
                                        !.terminators = @ + 1],
                          <<"unit">>, <<>>)
          ELSE SessEffect(again, <<"unit">>, <<>>)

\* one second passes: Instant::now() moves on, no field is assigned
Second(session) ==
    [session EXCEPT !.hb = IF @ < HB_TIME_LIMIT THEN @ + 1 ELSE @,
                    !.next_hb = @ - 1,
                    !.quiet = IF @ < HB_TIME_LIMIT THEN @ + 1 ELSE @]

\* StreamHandler::handle, ws::Message::Ping: ctx.pong
Ping(session) == SessEffect(session, <<"unit">>, <<ToClient([frame |-> "Pong"])>>)

\* StreamHandler::handle, ws::Message::Pong: the `_ => {}` arm
Pong(session) == SessEffect(session, <<"unit">>, <<>>)

\* the run_later callback of Session::heartbeat: ctx.stop()
Terminator(session) == SessionStopped(session)

\* A &str is the sequence of its characters.  Utf8Len is the number of bytes
\* of a character in the UTF-8 encoding of a Rust str.
Utf8Len(char) == IF char = "é" THEN 2 ELSE 1

\* str::len: the length of a string in BYTES
RECURSIVE len(_)
len(str) == IF str = <<>> THEN 0 ELSE Utf8Len(Head(str)) + len(Tail(str))

\* string_to_code: Err for a string that is not ROOM_CODE_LENGTH bytes long,
\* else a buffer of ROOM_CODE_LENGTH '0' overwritten from the left with the
\* characters of the string
string_to_code(str) ==
    IF len(str) # ROOM_CODE_LENGTH
      THEN <<"Err">>
      ELSE <<"Ok", [i \in 1..ROOM_CODE_LENGTH |-> IF i <= Len(str) THEN str[i] ELSE "0"]>>

\* the characters of a code buffer, as the RoomCode handed to join_room
RoomCodeOf(chars) == chars[1] \o chars[2] \o chars[3] \o chars[4]

\* Session::join_room.  `reply` is what the RoomManager answered to the JoinRoom
\* the session waits for: <<"Ok", code, addr>>, <<"Err", e>>, or
\* <<"MailboxError">>.
join_room(session, self, code, reply) ==
    IF session.transient_id = 0
      THEN SessEffect(SessionGone("aborted"), <<"panic">>, <<>>)
      ELSE
        LET sent == <<ToRM(MsgJoinRoom(<<session.transient_id, self>>, code))>>
        IN  IF reply[1] = "Ok"
              THEN SessEffect([session EXCEPT !.room = reply[3]],
                              <<"unit">>,
                              sent \o <<ToServer(MsgUpdateSessionRoomInfo(session.transient_id,
                                                                         reply[3])),
                                        ToClient(ResultFrame(TRUE, reply[2]))>>)
            ELSE IF reply[1] = "Err"
              THEN SessEffect(session, <<"unit">>,
                              sent \o <<ToClient(ResultFrame(FALSE, reply[2]))>>)
            ELSE SessEffect(session, <<"unit">>,
                            sent \o <<ToClient(ResultFrame(FALSE, "InternalServerError"))>>)

\* Session::handle_message, IncomingMessage::Login.  `reply` is the TransientId
\* the registry answered to the Register the session waits for, 0 for an error.
Login(session, self, id, reply) ==
    IF session.id # 0
      THEN SessEffect(session, <<"unit">>, <<>>)
      ELSE SessEffect([session EXCEPT !.id = id,
                                      !.transient_id =
                                         IF reply # 0 THEN reply ELSE session.transient_id],
                      <<"unit">>,
                      <<ToServer(MsgRegister(self, id))>>)

\* Logout that reads transient_id instead of taking it
LogoutKeepsTransientId(session) ==
    IF session.transient_id # 0
      THEN SessEffect(SessionStopped(session).session, <<"unit">>,
                      <<ToServer(MsgUnregister(session.transient_id, "Logout"))>>
                        \o SessionStopped(session).out)
      ELSE SessionStopped(session)

\* Session::handle_message, IncomingMessage::Logout: ctx.stop() and then stopped
Logout(session) ==
    IF session.transient_id # 0
      THEN LET cleared == [session EXCEPT !.transient_id = 0, !.id = 0]
           IN  SessEffect(SessionStopped(cleared).session, <<"unit">>,
                          <<ToServer(MsgUnregister(session.transient_id, "Logout"))>>
                            \o SessionStopped(cleared).out)
      ELSE SessionStopped(session)

\* Session::handle_message, IncomingMessage::JoinRoom(code), code an
\* Option<String>: None or Some(str)
HandleJoinRoom(session, self, code, reply) ==
    IF code = None THEN join_room(session, self, NoCode, reply)
    ELSE IF string_to_code(code.str)[1] = "Err"
      THEN SessEffect(session, <<"unit">>, <<ToClient(ResultFrame(FALSE, "InvalidCode"))>>)
    ELSE join_room(session, self, RoomCodeOf(string_to_code(code.str)[2]), reply)

\* Session::handle_message, any other IncomingMessage: todo!()
HandleOther(session) == SessEffect(SessionGone("aborted"), <<"panic">>, <<>>)

\* the stream of the client ended: ctx.stop() and then stopped
StreamFinished(session) == SessionStopped(session)

\* Handler<Stop> for Session: ctx.stop() and then stopped
Stop(session) == SessionStopped([session EXCEPT !.id = 0])

\* Handler<ClearRoom> for Session.  expect() panics without a TransientId,
\* before the UpdateSessionRoomInfo is sent and with the frame not yet written.
ClearRoom(session, reason) ==
    IF session.transient_id = 0
      THEN SessEffect(SessionGone("aborted"), <<"panic">>, <<>>)
      ELSE SessEffect([session EXCEPT !.room = 0], <<"unit">>,
                      <<ToClient(RemoveFromRoom(reason)),
                        ToServer(MsgUpdateSessionRoomInfo(session.transient_id, 0))>>)

\* Handler<RestoreState> for Session
RestoreState(session, code) ==
    SessEffect(session, <<"unit">>, <<ToClient(MsgRestoreState(code, "state"))>>)

\* Handler<SerializedMessage> for Session
SerializedMessage(session, frame) ==
    SessEffect(session, <<"unit">>, <<ToClient(frame)>>)

---------------------------------------------------------------------------
(* A Room actor and the messages any sender may put in its mailbox.  The  *)
(* Room handles one message at a time; `last` records the handler, its    *)
(* reply and what it sent.                                                *)

Handled(actor, msg, eff) ==
    [actor |-> actor, msg |-> msg, result |-> eff.result, out |-> eff.out]

NoHandler == [actor |-> <<"none">>, msg |-> <<>>, result |-> <<"unit">>, out |-> <<>>]

Running(r) == rooms[r].state = "running"

\* the Room under study, as RoomManager::create started it for the stream with
\* TransientId 1
InitRoom ==
    /\ \E public \in BOOLEAN, max \in Capacities :
          LET made == create(RoomManagerNew, <<1, 1>>, RoomConfig(public, max), "AAAA", 1)
          IN  /\ rooms = [r \in RoomIds |-> IF r = 1 THEN made.started ELSE NoRoom]
              /\ rm = made.rm
    /\ server = ServerNew
    /\ sess = [s \in TransientIds |-> NoSession]
    /\ id_provider = MaxTid
    /\ last = NoHandler

RoomHandles(r, msg, eff) ==
    /\ rooms' = [rooms EXCEPT ![r] = eff.room]
    /\ last' = Handled(<<"room", r>>, msg, eff)

EnvAddPlayer(r, t) ==
    /\ Running(r)
    /\ Len(rooms[r].players) < MaxSlots
    /\ RoomHandles(r, <<"AddPlayer", t>>, AddPlayer(rooms[r], t, t))
    /\ UNCHANGED <<rm, server, sess, id_provider>>

EnvRemovePlayer(r, t, reason) ==
    /\ Running(r)
    /\ RoomHandles(r, <<"RemovePlayer", t, reason>>, RemovePlayer(rooms[r], t, reason))
    /\ UNCHANGED <<rm, server, sess, id_provider>>

EnvClientReconnection(r, replacee, t) ==
    /\ Running(r)
    /\ RoomHandles(r, <<"ClientReconnection", replacee, t>>,
                   ClientReconnection(rooms[r], replacee, t, t))
    /\ UNCHANGED <<rm, server, sess, id_provider>>

EnvRequestStart(r, t) ==
    /\ Running(r)
    /\ RoomHandles(r, <<"RequestStart", t>>, RequestStart(rooms[r], t))
    /\ UNCHANGED <<rm, server, sess, id_provider>>

EnvCloseRoom(r) ==
    /\ Running(r)
    /\ RoomHandles(r, <<"CloseRoom">>, CloseRoom(rooms[r]))
    /\ UNCHANGED <<rm, server, sess, id_provider>>

NextRoom ==
    \E r \in RoomIds :
      \/ \E t \in TransientIds : EnvAddPlayer(r, t)
      \/ \E t \in TransientIds, reason \in SentReasons : EnvRemovePlayer(r, t, reason)
      \/ \E replacee \in TransientIds, t \in TransientIds : EnvClientReconnection(r, replacee, t)
      \/ \E t \in TransientIds : EnvRequestStart(r, t)
      \/ EnvCloseRoom(r)

SpecRoom == InitRoom /\ [][NextRoom]_vars

---------------------------------------------------------------------------
(* The RoomManager and the messages any sender may put in its mailbox:     *)
(* CreateRoom and JoinRoom from sessions, UpdateRoomMatchAvailability and  *)
(* OnRoomClosed for any code.  CreateRoom asks for a private room of the   *)
(* largest capacity.  A Room that create started is recorded in            *)
(* `rooms`; what the RoomManager sent to a Room is recorded in `last`.     *)

InitRM ==
    /\ rooms = [r \in RoomIds |-> NoRoom]
    /\ rm = RoomManagerNew
    /\ server = ServerNew
    /\ sess = [s \in TransientIds |-> NoSession]
    /\ id_provider = MaxTid
    /\ last = NoHandler

\* the address of the next Room started, 0 when MaxRooms Rooms were started
FreshRoom ==
    IF \E r \in RoomIds : rooms[r] = NoRoom
      THEN CHOOSE r \in RoomIds : rooms[r] = NoRoom /\ \A q \in 1..(r - 1) : rooms[q] # NoRoom
      ELSE 0

\* a RoomManager handler ran: its fields, the Room it started, its reply and sends
RMHandles(msg, eff) ==
    /\ rm' = eff.rm
    /\ rooms' = IF eff.started # NoRoom
                  THEN [rooms EXCEPT ![eff.started.addr] = eff.started]
                  ELSE rooms
    /\ last' = Handled(<<"room_manager">>, msg, eff)
    /\ UNCHANGED <<server, sess, id_provider>>

RMCreateRoom(t, public, max, code) ==
    /\ FreshRoom # 0
    /\ RMHandles(<<"CreateRoom", t, code>>,
                 CreateRoom(rm, <<t, t>>, RoomConfig(public, max), code, FreshRoom))

\* the Room a JoinRoom is forwarded to, 0 if it is forwarded to none
ForwardedTo(code, found) ==
    IF code # NoCode
      THEN IF rm.reserved[code] # NoInfo
             THEN IF rm.reserved[code].playing \/ rm.reserved[code].full
                    THEN 0 ELSE rm.reserved[code].addr
             ELSE rm.open[code].addr
      ELSE IF found # NoCode THEN rm.open[found].addr ELSE 0

\* what a Room answers to AddPlayer, or the failure of the send
AddPlayerReplies(r) ==
    {<<"Ok", rooms[r].code, r>>, <<"MailboxError">>}
      \cup {<<"Err", e>> : e \in {"GameInProgress", "RoomFull", "AlreadyInRoom"}}

RMJoinRoom(t, code, found, newcode, reply) ==
    /\ IF code = NoCode /\ PoolKeys(rm.open) # {}
         THEN found \in PoolKeys(rm.open)
         ELSE found = NoCode
    /\ IF code = NoCode /\ found = NoCode THEN FreshRoom # 0 ELSE newcode = "AAAA"
    /\ IF ForwardedTo(code, found) # 0
         THEN reply \in AddPlayerReplies(ForwardedTo(code, found))
         ELSE reply = <<"MailboxError">>
    /\ RMHandles(<<"JoinRoom", t, code, reply>>,
                 JoinRoom(rm, <<t, t>>, code, found, newcode, FreshRoom, reply))

RMUpdateRoomMatchAvailability(code, availability) ==
    /\ availability \in Availabilities
    /\ RMHandles(<<"UpdateRoomMatchAvailability", code, availability>>,
                 RMEffect(UpdateRoomMatchAvailability(rm, code, availability),
                          <<"unit">>, <<>>, NoRoom))

RMOnRoomClosed(code) ==
    /\ code \in RoomCodes
    /\ RMHandles(<<"OnRoomClosed", code>>,
                 RMEffect(OnRoomClosed(rm, code), <<"unit">>, <<>>, NoRoom))

NextRM ==
    \/ \E t \in Joiners, code \in RoomCodes : RMCreateRoom(t, FALSE, MaxCap, code)
    \/ \E t \in Joiners, code \in RoomCodes \cup {NoCode},
          found \in RoomCodes \cup {NoCode}, newcode \in RoomCodes,
          reply \in UNION {AddPlayerReplies(r) : r \in {q \in RoomIds : rooms[q] # NoRoom}}
                      \cup {<<"MailboxError">>} :
         RMJoinRoom(t, code, found, newcode, reply)
    \/ \E code \in RoomCodes, availability \in Availabilities :
         RMUpdateRoomMatchAvailability(code, availability)
    \/ \E code \in RoomCodes : RMOnRoomClosed(code)

SpecRM == InitRM /\ [][NextRM]_vars

---------------------------------------------------------------------------
(* The Server and the messages sessions put in its mailbox: RegisterSession *)
(* from a session that logs in, DeregisterSession from a session that logs  *)
(* out or stops, UpdateSessionRoomInfo from a session that joined a room or *)
(* was cleared from one.                                                    *)

InitServer ==
    /\ rooms = [r \in RoomIds |-> NoRoom]
    /\ rm = RoomManagerNew
    /\ server = ServerNew
    /\ sess = [s \in TransientIds |-> NoSession]
    /\ id_provider = MaxTid
    /\ last = NoHandler

ServerRunning == server.state = "running"

ServerHandles(msg, eff) ==
    /\ server' = eff.server
    /\ last' = Handled(<<"server">>, msg, eff)
    /\ UNCHANGED <<rooms, rm, sess, id_provider>>

SrvRegisterSession(s, u) ==
    /\ ServerRunning
    /\ ServerHandles(<<"RegisterSession", s, u>>, RegisterSession(server, s, u, s))

SrvDeregisterSession(s, reason) ==
    /\ ServerRunning
    /\ ServerHandles(<<"DeregisterSession", s, reason>>, DeregisterSession(server, s, reason))

SrvUpdateSessionRoomInfo(s, room) ==
    /\ ServerRunning
    /\ ServerHandles(<<"UpdateSessionRoomInfo", s, room>>,
                     UpdateSessionRoomInfo(server, s, room))

NextServer ==
    \/ \E s \in TransientIds, u \in UserIds : SrvRegisterSession(s, u)
    \/ \E s \in TransientIds, reason \in {"Logout", "Disconnected"} :
         SrvDeregisterSession(s, reason)
    \/ \E s \in TransientIds, room \in RoomIds \cup {0} : SrvUpdateSessionRoomInfo(s, room)

SpecServer == InitServer /\ [][NextServer]_vars

---------------------------------------------------------------------------
(* A Session and what reaches it: the frames of its client, the end of the *)
(* stream, its timers, the replies of the registry and the RoomManager,    *)
(* and the messages other actors send it.                                  *)

InitSession ==
    /\ rooms = [r \in RoomIds |-> NoRoom]
    /\ rm = RoomManagerNew
    /\ server = ServerNew
    /\ sess = [s \in TransientIds |-> IF s = 1 THEN SessionNew ELSE NoSession]
    /\ id_provider = 1
    /\ last = NoHandler

SessionRunning(s) == sess[s].state = "running"

SessionHandles(s, msg, eff) ==
    /\ sess' = [sess EXCEPT ![s] = eff.session]
    /\ last' = Handled(<<"session", s>>, msg, eff)
    /\ UNCHANGED <<rooms, rm, server, id_provider>>

JoinRoomReplies ==
    {<<"Ok", code, r>> : code \in RoomCodes, r \in RoomIds}
      \cup {<<"Err", e>> : e \in JoinRoomErrors}
      \cup {<<"MailboxError">>}

\* what a client may send as the code of JoinRoom: nothing, the code of a
\* room, a string that is too short, and a string of two characters that is
\* ROOM_CODE_LENGTH bytes long
FrameStrings ==
    {<<"A", "A", "A", "A">>, <<"A", "A", "A", "B">>, <<"A", "A", "A">>, <<"é", "é">>}

FrameCodes == {None} \cup {Some(str) : str \in FrameStrings}

\* the RoomCode the RoomManager is asked for, NoCode when there is none
Requested(code) ==
    IF code = None \/ string_to_code(code.str)[1] = "Err"
      THEN NoCode
      ELSE RoomCodeOf(string_to_code(code.str)[2])

\* the client delivered the frame the handler ran for
Delivered(eff) ==
    IF eff.session.state = "running" /\ eff.session.quiet < HB_TIME_LIMIT
      THEN [eff EXCEPT !.session.quiet = 0]
      ELSE eff

SessLogin(s, u, reply) ==
    /\ SessionRunning(s)
    /\ reply \in {0, s}
    /\ SessionHandles(s, <<"Login", u>>, Delivered(Login(sess[s], s, u, reply)))

SessLogout(s) ==
    /\ SessionRunning(s)
    /\ SessionHandles(s, <<"Logout">>, Delivered(Logout(sess[s])))

SessPing(s) ==
    /\ SessionRunning(s)
    /\ SessionHandles(s, <<"Ping">>, Delivered(Ping(sess[s])))

SessPong(s) ==
    /\ SessionRunning(s)
    /\ SessionHandles(s, <<"Pong">>, Delivered(Pong(sess[s])))

\* a second passes, unless the interval callback is due
SessSecond(s) ==
    /\ SessionRunning(s)
    /\ sess[s].next_hb > 0
    /\ sess' = [sess EXCEPT ![s] = Second(sess[s])]
    /\ last' = NoHandler
    /\ UNCHANGED <<rooms, rm, server, id_provider>>

SessJoinRoom(s, code, reply) ==
    /\ SessionRunning(s)
    /\ reply[1] = "Ok" => Requested(code) \in {NoCode, reply[2]}
    /\ SessionHandles(s, <<"JoinRoom", code>>,
                      Delivered(HandleJoinRoom(sess[s], s, code, reply)))

SessOther(s) ==
    /\ SessionRunning(s)
    /\ SessionHandles(s, <<"Other">>, Delivered(HandleOther(sess[s])))

SessStreamFinished(s) ==
    /\ SessionRunning(s)
    /\ SessionHandles(s, <<"finished">>, StreamFinished(sess[s]))

SessHeartbeat(s) ==
    /\ SessionRunning(s)
    /\ sess[s].next_hb = 0
    /\ sess[s].terminators < MaxTimers
    /\ SessionHandles(s, <<"heartbeat">>, heartbeat(sess[s]))

SessTerminator(s) ==
    /\ SessionRunning(s)
    /\ sess[s].reconnection_timer
    /\ SessionHandles(s, <<"terminator">>, Terminator(sess[s]))

SessStop(s) ==
    /\ SessionRunning(s)
    /\ SessionHandles(s, <<"Stop">>, Stop(sess[s]))

SessClearRoom(s, reason) ==
    /\ SessionRunning(s)
    /\ SessionHandles(s, <<"ClearRoom", reason>>, ClearRoom(sess[s], reason))

SessRestoreState(s, code) ==
    /\ SessionRunning(s)
    /\ SessionHandles(s, <<"RestoreState", code>>, RestoreState(sess[s], code))

SessSerializedMessage(s, reason) ==
    /\ SessionRunning(s)
    /\ SessionHandles(s, <<"SerializedMessage", reason>>,
                      SerializedMessage(sess[s], RemoveFromRoom(reason)))

NextSession ==
    \E s \in TransientIds :
      \/ \E u \in UserIds, reply \in {0} \cup TransientIds : SessLogin(s, u, reply)
      \/ SessLogout(s)
      \/ \E code \in FrameCodes, reply \in JoinRoomReplies : SessJoinRoom(s, code, reply)
      \/ SessOther(s)
      \/ SessPing(s)
      \/ SessPong(s)
      \/ SessSecond(s)
      \/ SessStreamFinished(s)
      \/ SessHeartbeat(s)
      \/ SessTerminator(s)
      \/ SessStop(s)
      \/ \E reason \in SentReasons : SessClearRoom(s, reason)
      \/ \E code \in RoomCodes : SessRestoreState(s, code)
      \/ SessSerializedMessage(s, "RoomClosed")

SpecSession == InitSession /\ [][NextSession]_vars

---------------------------------------------------------------------------
(* The /ws route: src/server/http.rs.  Every request locks the id provider, *)
(* adds one and starts a Session with the new id.  The Sessions it started  *)
(* run their timers and end with their streams.                             *)

\* what socket did: the id provider afterwards, the id handed to the stream
\* and the Session started
HttpEffect(id, result, started) == [id_provider |-> id, result |-> result, started |-> started]

\* socket that hands out the value of the id provider without adding one
socketNoIncrement(id) ==
    IF id = 0
      THEN HttpEffect(id + 1, <<"Ok", id + 1>>, SessionNew)
      ELSE HttpEffect(id, <<"Ok", id>>, SessionNew)

\* socket, with the lock taken: *id += 1; ws::start(Session::new(.., *id))
socket(id) == HttpEffect(id + 1, <<"Ok", id + 1>>, SessionNew)

InitHttp ==
    /\ rooms = [r \in RoomIds |-> NoRoom]
    /\ rm = RoomManagerNew
    /\ server = ServerNew
    /\ sess = [s \in TransientIds |-> NoSession]
    /\ id_provider = 0
    /\ last = NoHandler

HttpSocket ==
    /\ id_provider < MaxTid
    /\ id_provider' = socket(id_provider).id_provider
    /\ sess' = [sess EXCEPT ![socket(id_provider).result[2]] = socket(id_provider).started]
    /\ last' = [actor |-> <<"http">>, msg |-> <<"socket">>,
                result |-> socket(id_provider).result, out |-> <<>>]
    /\ UNCHANGED <<rooms, rm, server>>

NextHttp ==
    \/ HttpSocket
    \/ \E s \in TransientIds :
         \/ SessSecond(s)
         \/ SessHeartbeat(s)
         \/ SessTerminator(s)
         \/ SessStreamFinished(s)

SpecHttp == InitHttp /\ [][NextHttp]_vars

---------------------------------------------------------------------------
(* Claims about the reconnection hand-off, under SpecServer *)

IsRegisterSession(h) == h.actor = <<"server">> /\ h.msg[1] = "RegisterSession"

\* a RegisterSession of stream s for user u finds a record of u, held by
\* another stream that was not deregistered, with a room
Reconnects(srv, s, u) ==
    /\ srv.sessions[s] = NoData
    /\ srv.sessions_inverted[u] # 0
    /\ srv.sessions[srv.sessions_inverted[u]] # NoData
    /\ srv.sessions[srv.sessions_inverted[u]].room # 0

\* the positions in `out` of the messages of this kind
Sends(out, to, kind) ==
    {i \in 1..Len(out) : out[i].to = to /\ out[i].body.kind = kind}

---------------------------------------------------------------------------
(* Claims about one Session, under SpecSession *)

\* C5: a Session that handles Stop sends no Unregister to the registry,
\* neither from the handler nor from the stopped hook that runs after it.
C5_StopSendsNoUnregister ==
    [][\A s \in TransientIds :
         (last'.actor = <<"session", s>> /\ last'.msg = <<"Stop">>)
           => Sends(last'.out, "server", "Unregister") = {}
      ]_vars

---------------------------------------------------------------------------
(* Claims about the RoomManager's pools, under SpecRM *)

\* the codes generate_room_id() returned for the Rooms started so far
Allocated == {rooms[r].code : r \in {q \in RoomIds : rooms[q] # NoRoom}}

PoolsOf(code) == {p \in {"free", "reserved", "open"} : rm[p][code] # NoInfo}

\* C1: every RoomCode ever allocated is a key of exactly one of the pools
\* free, open and reserved.
C1_PoolExclusive ==
    \A code \in Allocated : Cardinality(PoolsOf(code)) = 1

\* C2: every RoomInfo in the open pool has full = false and playing = false.
C2_OpenNotFullNotPlaying ==
    \A code \in PoolKeys(rm.open) : ~rm.open[code].full /\ ~rm.open[code].playing

\* C2 witness: a room is in the open pool, and Available has just been handled
\* for a reserved room marked full, which stayed in reserved
C2_Witness ==
    \E c \in RoomCodes, d \in RoomCodes :
      /\ rm.open[c] # NoInfo
      /\ rm.reserved[d].full
      /\ last.msg = <<"UpdateRoomMatchAvailability", d, "Available">>

---------------------------------------------------------------------------
(* Claims about one Room, under SpecRoom *)

Members(room) == Keys(room.id_map)

IsAddPlayer(h, r) == h.actor = <<"room", r>> /\ h.msg[1] = "AddPlayer"

FullSends(out) ==
    {i \in 1..Len(out) : out[i] = ToRM(MsgUpdateRoomMatchAvailability(out[i].body.code, "Full"))}

\* C6: in a running Room the keys of the index map are exactly the TransientIds
\* of the Some slots, every TransientId sits in one slot only, and id_map[t] = i
\* implies that slot i is Some and carries t.
C6_RosterConsistent ==
    \A r \in RoomIds : Running(r) =>
      LET room == rooms[r] IN
        /\ Members(room) = {room.players[i].transient_id : i \in SomeSlots(room)}
        /\ \A i, j \in SomeSlots(room) :
              room.players[i].transient_id = room.players[j].transient_id => i = j
        /\ \A t \in Members(room) :
              /\ room.id_map[t] \in SomeSlots(room)
              /\ room.players[room.id_map[t]].transient_id = t

\* C7: in a running Room player_count is the number of Some slots.
C7_CountIsSomeSlots ==
    \A r \in RoomIds : Running(r) =>
      rooms[r].player_count = Cardinality(SomeSlots(rooms[r]))

\* C8: the slot vector and the membership of a running Room never exceed
\* max_player_count.
C8_CapacityBound ==
    \A r \in RoomIds : Running(r) =>
      /\ Len(rooms[r].players) <= rooms[r].max_player_count
      /\ Cardinality(Members(rooms[r])) <= rooms[r].max_player_count

\* C9: AddPlayer(tid) answers GameInProgress if a game runs, else RoomFull if
\* player_count >= max_player_count, else AlreadyInRoom if tid is in the index
\* map, and then leaves slots, index map and player_count as they were;
\* otherwise tid is admitted and the reply is the room's code and address.
C9_AddPlayerContract ==
    [][\A r \in RoomIds : IsAddPlayer(last', r) =>
         LET room == rooms[r]
             after == rooms'[r]
             tid == last'.msg[2]
             err == IF room.game THEN "GameInProgress"
                    ELSE IF room.player_count >= room.max_player_count THEN "RoomFull"
                    ELSE IF tid \in Members(room) THEN "AlreadyInRoom"
                    ELSE "none"
         IN  IF err # "none"
               THEN /\ last'.result = <<"Err", err>>
                    /\ after.players = room.players
                    /\ after.id_map = room.id_map
                    /\ after.player_count = room.player_count
               ELSE /\ last'.result = <<"Ok", room.code, room.addr>>
                    /\ tid \in Members(after)
                    /\ after.players[after.id_map[tid]].transient_id = tid
                    /\ after.player_count = room.player_count + 1
      ]_vars

\* C9 witness: an AddPlayer was refused with RoomFull, and one with AlreadyInRoom
\* is possible from here too (the room is running and has members)
C9_Witness ==
    \E r \in RoomIds :
      /\ IsAddPlayer(last, r)
      /\ last.result = <<"Err", "RoomFull">>
      /\ Running(r)
      /\ rooms[r].player_count = rooms[r].max_player_count

\* C10: an AddPlayer of a new tid on a room that holds max_player_count - 1
\* players and has no game succeeds and sends exactly one
\* UpdateRoomMatchAvailability(Unavailable(Full)) to the RoomManager.
C10_FullAtCapacity ==
    [][\A r \in RoomIds :
         (/\ IsAddPlayer(last', r)
          /\ ~rooms[r].game
          /\ Cardinality(Members(rooms[r])) = rooms[r].max_player_count - 1
          /\ Cardinality(SomeSlots(rooms[r])) = rooms[r].max_player_count - 1
          /\ last'.msg[2] \notin Members(rooms[r]))
         => /\ last'.result[1] = "Ok"
            /\ Cardinality(FullSends(last'.out)) = 1
      ]_vars

---------------------------------------------------------------------------
(* Claims about RemovePlayer, ClientReconnection and RequestStart of one   *)
(* Room, under SpecRoom                                                    *)

IsRoomMsg(h, r, kind) == h.actor = <<"room", r>> /\ h.msg[1] = kind

\* C11: RemovePlayer(tid) for a member of a room that goes on running empties
\* the slot that held tid, removes tid from the index map, lowers player_count
\* by one and leaves every other slot and index-map entry as it was.
C11_RemovePlayerFrame ==
    [][\A r \in RoomIds :
         (/\ IsRoomMsg(last', r, "RemovePlayer")
          /\ last'.msg[2] \in Members(rooms[r])
          /\ Running(r)')
         => LET room == rooms[r]
                after == rooms'[r]
                tid == last'.msg[2]
                idx == room.id_map[tid]
            IN  /\ Len(after.players) = Len(room.players)
                /\ after.players[idx] = NoPlayer
                /\ \A i \in 1..Len(room.players) : i # idx => after.players[i] = room.players[i]
                /\ after.id_map = MapRemove(room.id_map, tid)
                /\ after.player_count = room.player_count - 1
      ]_vars

\* C12: ClientReconnection(replacee, (newTid, newSession)) for a member keeps
\* the slot index: the Room goes on running, the slot of the replacee holds
\* (newTid, newSession), the index map has newTid at that index and no entry
\* for the replacee, player_count and all other slots are as they were.
C12_ReconnectionKeepsSlot ==
    [][\A r \in RoomIds :
         (/\ IsRoomMsg(last', r, "ClientReconnection")
          /\ last'.msg[2] \in Members(rooms[r])
          /\ last'.msg[3] \notin Members(rooms[r]))
         => LET room == rooms[r]
                after == rooms'[r]
                replacee == last'.msg[2]
                new == last'.msg[3]
                idx == room.id_map[replacee]
            IN  /\ after.state = "running"
                /\ Len(after.players) = Len(room.players)
                /\ after.players[idx] = PlayerInRoom(new, new)
                /\ \A i \in 1..Len(room.players) : i # idx => after.players[i] = room.players[i]
                /\ after.id_map = MapInsert(MapRemove(room.id_map, replacee), new, idx)
                /\ after.player_count = room.player_count
      ]_vars

---------------------------------------------------------------------------
(* Claims about JoinRoom, OnRoomClosed and room creation, under SpecRM *)

IsRMMsg(h, kind) == h.actor = <<"room_manager">> /\ h.msg[1] = kind

\* C14: JoinRoom with a code answers GameInProgress for a reserved room that is
\* playing and RoomFull for a reserved room that is full, sending nothing to the
\* Room; for a reserved room with neither flag, or an open room, it sends
\* AddPlayer to that Room and passes on its reply; for a code in neither
\* reserved nor open, also one that is only in free, it answers RoomNotFound.
C14_JoinRoomWithCode ==
    [][(IsRMMsg(last', "JoinRoom") /\ last'.msg[3] # NoCode) =>
         LET t == last'.msg[2]
             code == last'.msg[3]
             reply == last'.msg[4]
             res == rm.reserved[code]
             forwarded(addr) ==
               /\ last'.out = <<ToRoom(addr, MsgAddPlayer(<<t, t>>))>>
               /\ reply[1] \in {"Ok", "Err"} => last'.result = reply
         IN  IF res # NoInfo /\ res.playing
               THEN last'.result = <<"Err", "GameInProgress">> /\ last'.out = <<>>
             ELSE IF res # NoInfo /\ res.full
               THEN last'.result = <<"Err", "RoomFull">> /\ last'.out = <<>>
             ELSE IF res # NoInfo THEN forwarded(res.addr)
             ELSE IF rm.open[code] # NoInfo THEN forwarded(rm.open[code].addr)
             ELSE last'.result = <<"Err", "RoomNotFound">> /\ last'.out = <<>>
      ]_vars

\* C14 witness: a JoinRoom with the code of a closed room, which is only in
\* free, was answered RoomNotFound
C14_Witness ==
    /\ IsRMMsg(last, "JoinRoom")
    /\ last.msg[3] # NoCode
    /\ PoolsOf(last.msg[3]) = {"free"}
    /\ last.result = <<"Err", "RoomNotFound">>

\* C15: JoinRoom without a code sends AddPlayer to a room of the open pool, if
\* there is one, and passes on its reply; with an empty open pool it starts a
\* Room with the default config (public, capacity 6) and the requester as
\* leader in slot 0, puts its RoomInfo into reserved with both flags false and
\* answers the code and the Room's address.
C15_JoinRoomWithoutCode ==
    [][(IsRMMsg(last', "JoinRoom") /\ last'.msg[3] = NoCode) =>
         LET t == last'.msg[2]
             reply == last'.msg[4]
         IN  IF PoolKeys(rm.open) # {}
               THEN /\ \E c \in PoolKeys(rm.open) :
                         last'.out = <<ToRoom(rm.open[c].addr, MsgAddPlayer(<<t, t>>))>>
                    /\ reply[1] \in {"Ok", "Err"} => last'.result = reply
                    /\ rooms' = rooms
               ELSE \E c \in RoomCodes, r \in RoomIds :
                      /\ rooms[r] = NoRoom
                      /\ last'.result = <<"Ok", c, r>>
                      /\ rooms'[r].state = "running"
                      /\ rooms'[r].code = c
                      /\ rooms'[r].public
                      /\ rooms'[r].max_player_count = DEFAULT_PLAYER_LIMIT
                      /\ rooms'[r].leader = t
                      /\ rooms'[r].players = <<PlayerInRoom(t, t)>>
                      /\ rm'.reserved[c] = [addr |-> r, playing |-> FALSE, full |-> FALSE]
                      /\ rm'.open = rm.open
      ]_vars

\* C15 witness: a JoinRoom without a code has created a room while another
\* room, created before, is in reserved
C15_Witness ==
    /\ IsRMMsg(last, "JoinRoom")
    /\ last.msg[3] = NoCode
    /\ last.result[1] = "Ok"
    /\ last.out = <<>>
    /\ \E c \in RoomCodes : rm.reserved[c].addr = last.result[3]
    /\ \E r \in RoomIds : r # last.result[3] /\ rooms[r] # NoRoom

\* C16: an OnRoomClosed(code) for a code in open or reserved leaves it in free
\* with both flags false and in neither open nor reserved; for any other code
\* it changes nothing; and another OnRoomClosed(code) right after it leaves
\* the RoomManager as it is.
C16_OnRoomClosedIdempotent ==
    [][IsRMMsg(last', "OnRoomClosed") =>
         LET code == last'.msg[2]
             known == rm.open[code] # NoInfo \/ rm.reserved[code] # NoInfo
         IN  /\ OnRoomClosed(rm', code) = rm'
             /\ known => /\ rm'.free[code] # NoInfo
                         /\ ~rm'.free[code].full
                         /\ ~rm'.free[code].playing
                         /\ rm'.open[code] = NoInfo
                         /\ rm'.reserved[code] = NoInfo
             /\ ~known => rm' = rm
      ]_vars

\* C16 witness: OnRoomClosed was handled for a code that is now only in free
C16_Witness ==
    /\ IsRMMsg(last, "OnRoomClosed")
    /\ PoolsOf(last.msg[2]) = {"free"}

\* C18: a Room is never started with a code that is a key of free, open or
\* reserved at that time.
C18_FreshCode ==
    [][\A r \in RoomIds :
         (rooms[r] = NoRoom /\ rooms'[r] # NoRoom) => PoolsOf(rooms'[r].code) = {}
      ]_vars

---------------------------------------------------------------------------
(* Claims about availability after a player left, under SpecRoom *)

\* C17: when a RemovePlayer brings the player_count of a full room without a
\* game below max_player_count, the Room sends the RoomManager an
\* UpdateRoomMatchAvailability(Available) for its code, so that the room
\* returns to the open pool.
C17_AvailabilityRecovers ==
    [][\A r \in RoomIds :
         (/\ IsRoomMsg(last', r, "RemovePlayer")
          /\ ~rooms[r].game
          /\ rooms[r].player_count >= rooms[r].max_player_count
          /\ Running(r)'
          /\ rooms'[r].player_count < rooms'[r].max_player_count)
         => \E i \in Sends(last'.out, "room_manager", "UpdateRoomMatchAvailability") :
              /\ last'.out[i].body.code = rooms[r].code
              /\ last'.out[i].body.availability = "Available"
      ]_vars

---------------------------------------------------------------------------
(* Claims about the frames of a Session, under SpecSession *)

\* a step in which Session s handled the message kind
IsSessMsg(h, s, kind) == h.actor = <<"session", s>> /\ h.msg[1] = kind

\* C19: a registered Session that gets a JoinRoom frame whose code does not
\* have exactly ROOM_CODE_LENGTH characters answers
\* Result(JoinRoom, false, InvalidCode), sends nothing to the RoomManager and
\* keeps its room reference.
C19_InvalidCodeRejected ==
    [][\A s \in TransientIds :
         (/\ IsSessMsg(last', s, "JoinRoom")
          /\ sess[s].transient_id # 0
          /\ last'.msg[2] # None
          /\ Len(last'.msg[2].str) # ROOM_CODE_LENGTH)
         => /\ last'.out = <<ToClient(ResultFrame(FALSE, "InvalidCode"))>>
            /\ sess'[s].room = sess[s].room
            /\ rm' = rm
      ]_vars

\* C20: at a run of the heartbeat check of a Session whose client has so far
\* delivered a frame (ping, pong or data) less than HB_TIME_LIMIT after the
\* one before, the Session is not found stale: no terminator is scheduled.
C20_FramesKeepAlive ==
    [][\A s \in TransientIds :
         (/\ IsSessMsg(last', s, "heartbeat")
          /\ sess[s].quiet < HB_TIME_LIMIT)
         => sess'[s].reconnection_timer = sess[s].reconnection_timer
      ]_vars

\* C21: a data or pong frame that a Session with a pending terminator handles
\* and survives cancels the terminator: the Session is alive again and the
\* terminator cannot stop it.
C21_TrafficCancelsTerminator ==
    [][\A s \in TransientIds :
         (/\ \E kind \in {"Pong", "Login", "JoinRoom"} : IsSessMsg(last', s, kind)
          /\ sess[s].reconnection_timer
          /\ SessionRunning(s)')
         => ~sess'[s].reconnection_timer
      ]_vars

---------------------------------------------------------------------------
(* Claims about the registry of sessions, under SpecServer *)

\* a step in which the Server handled the message kind
IsServerMsg(h, kind) == h.actor = <<"server">> /\ h.msg[1] = kind

---------------------------------------------------------------------------
(* Claims about ClearRoom, Logout and failing frames, under SpecSession *)

\* C23: a ClearRoom that a Session handles right after another ClearRoom
\* writes its RemoveFromRoom frame, leaves the room reference absent and
\* sends no second UpdateSessionRoomInfo to the registry.
C23_ClearRoomOnce ==
    [][\A s \in TransientIds :
         (/\ IsSessMsg(last, s, "ClearRoom")
          /\ IsSessMsg(last', s, "ClearRoom")
          /\ SessionRunning(s))
         => /\ SessionRunning(s)'
            /\ sess'[s].room = 0
            /\ last'.out = <<ToClient(RemoveFromRoom(last'.msg[2]))>>
      ]_vars

\* C24: a Session that holds a TransientId and handles a Logout frame sends
\* the registry one Unregister, with reason Logout, and is stopped; its
\* stopped hook adds no Unregister(Disconnected).
C24_LogoutUnregistersOnce ==
    [][\A s \in TransientIds :
         (IsSessMsg(last', s, "Logout") /\ sess[s].transient_id # 0)
         => /\ last'.out = <<ToServer(MsgUnregister(sess[s].transient_id, "Logout"))>>
            /\ sess'[s].state = "stopped"
            /\ sess'[s].id = 0
            /\ sess'[s].transient_id = 0
      ]_vars

C24_Witness ==
    \E s \in TransientIds :
      /\ IsSessMsg(last, s, "Logout")
      /\ sess[s].state = "stopped"
      /\ Sends(last.out, "server", "Unregister") # {}

\* C25: in every state of a running Server the two maps agree: each user of
\* sessions_inverted points to a session that has a record of that user, and
\* the user of each record points back to the record's session; so no user has
\* two records.
C25_MapsConsistent ==
    ServerRunning =>
      /\ \A u \in UserIds :
           server.sessions_inverted[u] # 0 =>
             /\ server.sessions[server.sessions_inverted[u]] # NoData
             /\ server.sessions[server.sessions_inverted[u]].id = u
      /\ \A t \in TransientIds :
           server.sessions[t] # NoData =>
             server.sessions_inverted[server.sessions[t].id] = t

\* a stale DeregisterSession of a superseded session was handled while the
\* user's record is held by another session
C25_Witness ==
    /\ ServerRunning
    /\ IsServerMsg(last, "DeregisterSession")
    /\ server.sessions[last.msg[2]] = NoData
    /\ \E u \in UserIds :
         /\ server.sessions_inverted[u] \notin {0, last.msg[2]}
         /\ server.sessions_inverted[u] > last.msg[2]
         /\ \E v \in UserIds \ {u} : server.sessions_inverted[v] # 0

\* C28: a Session without a TransientId that gets a JoinRoom frame goes on
\* running, whatever the code of the frame.
C28_FailingFrameSurvived ==
    [][\A s \in TransientIds :
         (IsSessMsg(last', s, "JoinRoom") /\ sess[s].transient_id = 0)
         => SessionRunning(s)'
      ]_vars

---------------------------------------------------------------------------
(* Claims about references to a Room and about its messages to the         *)
(* RoomManager, under SpecRoom                                             *)

\* C26: a Room that stops on CloseRoom sends ClearRoom to the Session of
\* every player in its roster, so that the Session drops its room reference
\* and has the registry drop the record's.
C26_StoppedRoomUnreferenced ==
    [][\A r \in RoomIds :
         (/\ IsRoomMsg(last', r, "CloseRoom")
          /\ Running(r)
          /\ rooms'[r].state = "stopped")
         => \A i \in SomeSlots(rooms[r]) :
              \E k \in Sends(last'.out, "session", "ClearRoom") :
                last'.out[k].addr = rooms[r].players[i].addr
      ]_vars

\* C29: an AddPlayer that is rejected sends the RoomManager nothing, and an
\* UpdateRoomMatchAvailability(Unavailable(Full)) is sent only by an AddPlayer
\* that admits a player and brings player_count to max_player_count.
C29_FullOnlyOnAdmission ==
    [][\A r \in RoomIds :
         /\ (IsRoomMsg(last', r, "AddPlayer") /\ last'.result[1] = "Err")
              => \A i \in 1..Len(last'.out) : last'.out[i].to # "room_manager"
         /\ (/\ last'.actor = <<"room", r>>
             /\ \E i \in Sends(last'.out, "room_manager", "UpdateRoomMatchAvailability") :
                   last'.out[i].body.availability = "Full")
              => /\ IsRoomMsg(last', r, "AddPlayer")
                 /\ last'.result[1] = "Ok"
                 /\ rooms'[r].player_count = rooms'[r].max_player_count
      ]_vars

\* C30: a RemovePlayer for a TransientId that is no key of the index map
\* leaves the Room as it was, running, and sends nothing.
C30_UnknownRemoveDropped ==
    [][\A r \in RoomIds :
         (IsRoomMsg(last', r, "RemovePlayer") /\ last'.msg[2] \notin Members(rooms[r]))
         => /\ rooms'[r] = rooms[r]
            /\ last'.out = <<>>
      ]_vars

---------------------------------------------------------------------------
(* Claims about the ids of streams, under SpecHttp *)

\* C27: the id socket hands to a stream is greater than the id handed to the
\* stream before and than the id of every Session started so far, running
\* or not: ids grow strictly and none is handed out twice.
C27_TransientIdsFresh ==
    [][last'.actor = <<"http">> =>
         LET id == last'.result[2]
         IN  /\ id > id_provider
             /\ \A s \in TransientIds : sess[s] # NoSession => s < id
      ]_vars

\* a stream got its id after the Session of an earlier stream had stopped
C27_Witness ==
    /\ last.actor = <<"http">>
    /\ sess[last.result[2]].state = "running"
    /\ \E s \in TransientIds : s < last.result[2] /\ sess[s].state = "stopped"

---------------------------------------------------------------------------
(* Claims about reconnection in the lobby, the start of a game and the     *)
(* leader of a Room, under SpecRoom                                        *)

\* C31: ClientReconnection for a member of a Room without a game sends the new
\* Session one RestoreState with the room's code and no game state, and the
\* Room goes on running.
C31_LobbyReconnection ==
    [][\A r \in RoomIds :
         (/\ IsRoomMsg(last', r, "ClientReconnection")
          /\ last'.msg[2] \in Members(rooms[r])
          /\ rooms[r].id_map[last'.msg[2]] \in SomeSlots(rooms[r])
          /\ ~rooms[r].game)
         => /\ Running(r)'
            /\ last'.result = <<"unit">>
            /\ last'.out = <<ToSession(last'.msg[3], MsgRestoreState(rooms[r].code, "none"))>>
      ]_vars

\* C32: a RequestStart that is let through (no game yet; public room, or the
\* leader of a private one) answers Ok and leaves a running Room with a game,
\* having told the RoomManager GameStarted and every player's Session
\* GameStarted.
C32_StartCompletes ==
    [][\A r \in RoomIds :
         (/\ IsRoomMsg(last', r, "RequestStart")
          /\ ~rooms[r].game
          /\ rooms[r].public \/ rooms[r].leader = last'.msg[2])
         => /\ last'.result = <<"Ok">>
            /\ Running(r)'
            /\ rooms'[r].game
            /\ last'.out =
                 <<ToRM(MsgUpdateRoomMatchAvailability(rooms[r].code, "GameStarted"))>>
                   \o ToEachPlayer(rooms[r].players, 1,
                                   MsgSerializedMessage([frame |-> "GameStarted"]))
      ]_vars

\* C35: once a RequestStart has started the game and told the RoomManager
\* GameStarted, the Room is there to answer the AddPlayer of a join that lost
\* the race, and answers it GameInProgress without adding the player.
C35_LateJoinRefused ==
    [][\A r \in RoomIds :
         (/\ IsRoomMsg(last', r, "RequestStart")
          /\ \E i \in Sends(last'.out, "room_manager", "UpdateRoomMatchAvailability") :
               last'.out[i].body.availability = "GameStarted")
         => /\ Running(r)'
            /\ \A t \in TransientIds :
                 AddPlayer(rooms'[r], t, t) =
                   Effect(rooms'[r], <<"Err", "GameInProgress">>, AddPlayer(rooms'[r], t, t).out)
      ]_vars

\* C36: a RemovePlayer stops the Room only when no member is left after it,
\* and the Room that stops sends the RoomManager OnRoomClosed with its code.
C36_StopsWhenEmpty ==
    [][\A r \in RoomIds :
         (/\ IsRoomMsg(last', r, "RemovePlayer")
          /\ Running(r)
          /\ ~Running(r)')
         => /\ Members(rooms[r]) \ {last'.msg[2]} = {}
            /\ rooms'[r].state = "stopped"
            /\ \E i \in Sends(last'.out, "room_manager", "OnRoomClosed") :
                 last'.out[i].body.code = rooms[r].code
      ]_vars

\* C37: the leader of a running Room that has a member is one of its members.
C37_LeaderIsMember ==
    \A r \in RoomIds :
      (Running(r) /\ Members(rooms[r]) # {}) => rooms[r].leader \in Members(rooms[r])

---------------------------------------------------------------------------
(* Claims about Unavailable and about matchmaking, under SpecRM *)

\* C33: UpdateRoomMatchAvailability(code, Unavailable(reason)) moves a code of
\* open to reserved and sets the flag of the reason (full for Full, playing
\* for GameStarted); for a code of reserved alone it sets that flag; the other
\* flag, the address, the free pool and the entries of every other code are
\* as they were, and a code in neither pool changes nothing.
C33_UnavailableContract ==
    [][(IsRMMsg(last', "UpdateRoomMatchAvailability") /\ last'.msg[3] # "Available") =>
         LET code == last'.msg[2]
             reason == last'.msg[3]
             from == IF rm.open[code] # NoInfo THEN rm.open[code] ELSE rm.reserved[code]
         IN  /\ rm'.free = rm.free
             /\ \A c \in RoomCodes \ {code} :
                  rm'.open[c] = rm.open[c] /\ rm'.reserved[c] = rm.reserved[c]
             /\ IF from = NoInfo
                  THEN rm' = rm
                  ELSE /\ rm'.open[code] = NoInfo
                       /\ rm'.reserved[code].addr = from.addr
                       /\ rm'.reserved[code].full = (from.full \/ reason = "Full")
                       /\ rm'.reserved[code].playing = (from.playing \/ reason = "GameStarted")
      ]_vars

\* a room that was playing was marked full as well
C33_Witness ==
    /\ IsRMMsg(last, "UpdateRoomMatchAvailability")
    /\ last.msg[3] = "Full"
    /\ rm.reserved[last.msg[2]].full
    /\ rm.reserved[last.msg[2]].playing
    /\ rm.open[last.msg[2]] = NoInfo

---------------------------------------------------------------------------
(* Claims about the terminators of a Session, under SpecSession *)

\* C34: a running Session has at most one terminator pending: a heartbeat
\* check that finds the Session stale while a terminator is pending schedules
\* no other.
C34_OneTerminator ==
    \A s \in TransientIds : SessionRunning(s) => sess[s].terminators <= 1

\* C39: a Session that handles the RestoreState of the Room it was
\* reconnected into holds a reference to that Room afterwards.
C39_RestoredSessionHasRoom ==
    [][\A s \in TransientIds :
         (IsSessMsg(last', s, "RestoreState") /\ SessionRunning(s)')
         => sess'[s].room # 0
      ]_vars

\* ---------------------------------------------------------------------------
\* SpecJoin: Sessions, the RoomManager and the Rooms together.  A JoinRoom
\* frame is followed through Session::join_room, Handler<JoinRoom> of the
\* RoomManager and Handler<AddPlayer> of the Room it is forwarded to, up to the
\* continuation that stores the Room's address in the Session.  Nothing in the
\* program sends Availability::Available, so the RoomManager receives only
\* what these handlers send.
\* ---------------------------------------------------------------------------

InitJoin ==
    /\ rooms = [r \in RoomIds |-> NoRoom]
    /\ rm = RoomManagerNew
    /\ server = ServerNew
    /\ sess = [s \in TransientIds |-> IF s \in UserIds THEN SessionNew ELSE NoSession]
    /\ id_provider = MaxUsers
    /\ last = NoHandler

\* what the Room at `target` does with the forwarded AddPlayer; a Room that
\* is not running does not answer and the send fails with MailboxError
RoomAnswer(target, session) ==
    IF target = 0 \/ ~Running(target)
      THEN Effect(IF target = 0 THEN NoRoom ELSE rooms[target], <<"MailboxError">>, <<>>)
      ELSE AddPlayer(rooms[target], session[1], session[2])

\* the RoomManager after the sends of a Room reached it
RoomSendsDelivered(m, out) ==
    IF Sends(out, "room_manager", "UpdateRoomMatchAvailability") # {}
      THEN LET i == CHOOSE x \in Sends(out, "room_manager", "UpdateRoomMatchAvailability") : TRUE
           IN  UpdateRoomMatchAvailability(m, out[i].body.code, out[i].body.availability)
      ELSE m

\* a client's Login frame
JoinLogin(s, u) ==
    /\ SessLogin(s, u, s)

\* a client's JoinRoom frame, from the Session to the Room and back
JoinJoinRoom(s, code, found, newcode) ==
    LET session == <<sess[s].transient_id, s>>
        want == Requested(code)
        target == ForwardedTo(want, found)
        answer == RoomAnswer(target, session)
        rmeff == JoinRoom(rm, session, want, found, newcode, FreshRoom, answer.result)
        seff == Delivered(HandleJoinRoom(sess[s], s, code, rmeff.result))
        asked == Sends(seff.out, "room_manager", "JoinRoom") # {}
        forwarded == asked /\ rmeff.out # <<>> /\ target # 0
    IN  /\ SessionRunning(s)
        /\ IF want = NoCode /\ PoolKeys(rm.open) # {}
             THEN found \in PoolKeys(rm.open)
             ELSE found = NoCode
        /\ IF asked /\ code = None /\ found = NoCode THEN FreshRoom # 0 ELSE newcode = "AAAA"
        /\ sess' = [sess EXCEPT ![s] = seff.session]
        /\ rm' = IF asked THEN RoomSendsDelivered(rmeff.rm, answer.out) ELSE rm
        /\ rooms' = IF ~asked THEN rooms
                    ELSE IF rmeff.started # NoRoom
                      THEN [rooms EXCEPT ![rmeff.started.addr] = rmeff.started]
                    ELSE IF forwarded
                      THEN [rooms EXCEPT ![target] = answer.room]
                    ELSE rooms
        /\ last' = Handled(<<"session", s>>, <<"JoinRoom", code>>, seff)
        /\ UNCHANGED <<server, id_provider>>

\* the frames whose code is none, malformed, or one the pools are indexed by
JoinFrames == {code \in FrameCodes : Requested(code) \in RoomCodes \cup {NoCode}}

NextJoin ==
    \/ \E s \in UserIds : JoinLogin(s, s)
    \/ \E s \in UserIds, code \in JoinFrames, found \in RoomCodes \cup {NoCode},
          newcode \in RoomCodes :
         JoinJoinRoom(s, code, found, newcode)

SpecJoin == InitJoin /\ [][NextJoin]_vars

\* the running Rooms that have `t` in their roster
RoomsOf(t) == {r \in RoomIds : Running(r) /\ t \in Members(rooms[r])}

\* C38: a TransientId is in the roster of at most one running Room, also after
\* the Session that holds it sent another JoinRoom.
C38_OneRoomPerTransientId ==
    \A t \in TransientIds : Cardinality(RoomsOf(t)) <= 1

\* a running Room that matchmaking could use: public, no game, not full
Joinable(r) ==
    /\ Running(r)
    /\ rooms[r].public
    /\ ~rooms[r].game
    /\ rooms[r].player_count < rooms[r].max_player_count

\* C40: a code-less JoinRoom of a registered Session that is in no Room, sent
\* while a public Room exists that is neither full nor playing, starts no new
\* Room and puts the requester into the roster of an existing one.
C40_MatchmakingFindsRoom ==
    [][\A s \in TransientIds :
         (/\ IsSessMsg(last', s, "JoinRoom")
          /\ last'.msg[2] = None
          /\ SessionRunning(s)
          /\ sess[s].transient_id # 0
          /\ RoomsOf(sess[s].transient_id) = {}
          /\ \E r \in RoomIds : Joinable(r))
         => /\ \A r \in RoomIds : rooms[r] = NoRoom => rooms'[r] = NoRoom
            /\ \E r \in RoomIds : Joinable(r) /\ sess[s].transient_id \in Members(rooms'[r])]_vars

====
